---- MODULE Spec2Model ----
(***************************************************************************)
(* A model of eml-parse-js: parse (raw EML text -> part tree), read (text  *)
(* or tree -> flat result), the bottom-up completeBoundary and the header  *)
(* value decoder unquoteString.                                            *)
(*                                                                         *)
(* A JavaScript string is a sequence of one-character strings; a           *)
(* JavaScript object is a function from its property names to values, so   *)
(* an unset property is a name outside the DOMAIN.  Values whose type the  *)
(* code tests (typeof, Array.isArray, truthiness) carry a tag t.           *)
(***************************************************************************)
EXTENDS Integers, Sequences, FiniteSets, TLC

VARIABLES
  pc,        \* which call has been made
  eml,       \* the first argument of parse and read
  options,   \* their second argument
  callback,  \* their third argument
  ret,       \* the value the last call returned
  cbLog,     \* the (error, result) pairs the last call handed to its callback
  escaped,   \* whether an exception left the last call
  leaves,    \* the kinds of the leaves the last read dispatched, in order
  tree,      \* the tree handed to read, when it was called with a tree
  raw,       \* the argument of completeBoundary or of unquoteString
  topDown    \* what parseRecursive makes of the lines of raw

vars == <<pc, eml, options, callback, ret, cbLog, escaped, leaves, tree, raw, topDown>>

-----------------------------------------------------------------------------
(* Characters and string primitives *)

CR == "\r"
LF == "\n"

\* \s of a JavaScript regular expression, within the characters used here
WhiteSpace == {" ", "\t", CR, LF}

Letters ==
  {"a","b","c","d","e","f","g","h","i","j","k","l","m","n","o","p","q","r","s",
   "t","u","v","w","x","y","z","A","B","C","D","E","F","G","H","I","J","K","L",
   "M","N","O","P","Q","R","S","T","U","V","W","X","Y","Z"}

Digits == {"0","1","2","3","4","5","6","7","8","9"}

\* [\w\d\-] of the header-name pattern
HeaderNameChars == Letters \cup Digits \cup {"_", "-"}

sContentType == <<"C","o","n","t","e","n","t","-","T","y","p","e">>
sContenttype == <<"C","o","n","t","e","n","t","-","t","y","p","e">>
sContentDisposition == <<"C","o","n","t","e","n","t","-","D","i","s","p","o","s","i","t","i","o","n">>
sContentTransferEncoding == <<"C","o","n","t","e","n","t","-","T","r","a","n","s","f","e","r","-","E","n","c","o","d","i","n","g">>
sContenttransferencoding == <<"C","o","n","t","e","n","t","-","t","r","a","n","s","f","e","r","-","e","n","c","o","d","i","n","g">>
sMultipartSlash == <<"m","u","l","t","i","p","a","r","t","/">>
sMultipart == <<"m","u","l","t","i","p","a","r","t">>
sTextHtml == <<"t","e","x","t","/","h","t","m","l">>
sTextPlain == <<"t","e","x","t","/","p","l","a","i","n">>
sUndefined == <<"u","n","d","e","f","i","n","e","d">>
sOundaryEq == <<"o","u","n","d","a","r","y","=">>
sDashDash == <<"-","-">>
sCRLF == <<CR, LF>>
sSubject == <<"S","u","b","j","e","c","t">>
sFrom == <<"F","r","o","m">>
sTo == <<"T","o">>
sCC == <<"C","C">>
sCc == <<"C","c">>
sDate == <<"D","a","t","e">>
sBase64 == <<"b","a","s","e","6","4">>
sQuotedPrintable == <<"q","u","o","t","e","d","-","p","r","i","n","t","a","b","l","e">>
sBinary == <<"b","i","n","a","r","y">>
s8bit == <<"8","b","i","t">>
sCharset == <<"c","h","a","r","s","e","t">>
sUtf8 == <<"u","t","f","8">>
sUtfDash8 == <<"u","t","f","-","8">>
defaultCharset == sUtfDash8
sQuot == <<"&","q","u","o","t",";">>
sName == <<"n","a","m","e">>
sInline == <<"i","n","l","i","n","e">>
sContentID == <<"C","o","n","t","e","n","t","-","I","D">>
sContentId == <<"C","o","n","t","e","n","t","-","I","d">>

\* s.indexOf(p) === 0
StartsWith(s, p) == Len(s) >= Len(p) /\ SubSeq(s, 1, Len(p)) = p

\* s.indexOf(p) >= 0
Contains(s, p) == \E k \in 0..(Len(s) - Len(p)) : SubSeq(s, k + 1, k + Len(p)) = p

\* the one element of a singleton.  With x \in {e} an expression is evaluated
\* once and its value named, as an assignment to a local variable does.
The(S) == CHOOSE x \in S : TRUE

\* the least and the greatest of a set of positions, 0 when it is empty
Least(S) == The({IF T = {} THEN 0 ELSE CHOOSE k \in T : \A j \in T : k <= j : T \in {S}})
Greatest(S) == The({IF T = {} THEN 0 ELSE CHOOSE k \in T : \A j \in T : j <= k : T \in {S}})

\* the 1-based position of the first occurrence of p in s, 0 when there is none
IndexOf(s, p) == Least({k \in 1..(Len(s) - Len(p) + 1) : SubSeq(s, k, k + Len(p) - 1) = p})

\* Array.prototype.join
RECURSIVE Join(_, _)
Join(ls, sep) ==
  IF Len(ls) = 0 THEN <<>>
  ELSE IF Len(ls) = 1 THEN ls[1]
  ELSE ls[1] \o sep \o Join(Tail(ls), sep)

\* the indices of s in order, for SelectSeq to filter
Positions(s) == [i \in 1..Len(s) |-> i]

\* String.prototype.split(/\r?\n/): every LF ends a line, and takes the CR
\* before it (when there is one) into the separator
Split(s) ==
  LET IsLF(i) == s[i] = LF
      lfs == SelectSeq(Positions(s), IsLF)
      From(k) == IF k = 1 THEN 1 ELSE lfs[k - 1] + 1
      To(k) == IF k > Len(lfs) THEN Len(s)
               ELSE IF lfs[k] - 1 >= From(k) /\ s[lfs[k] - 1] = CR THEN lfs[k] - 2
               ELSE lfs[k] - 1
  IN [k \in 1..(Len(lfs) + 1) |-> SubSeq(s, From(k), To(k))]

\* the number of leading characters of s that lie in the class cls
RunLen(s, cls) == Least({i \in 1..(Len(s) + 1) : i > Len(s) \/ s[i] \notin cls}) - 1

\* the longest prefix of s without CR or LF: what [^\r\n]* takes
TakeLine(s) == SubSeq(s, 1, Least({i \in 1..(Len(s) + 1) : i > Len(s) \/ s[i] \in {CR, LF}}) - 1)

Drop(s, n) == SubSeq(s, n + 1, Len(s))

TrimEnd(s) == SubSeq(s, 1, Greatest({i \in 1..Len(s) : s[i] \notin WhiteSpace}))

\* String.prototype.trim
Trim(s) == TrimEnd(Drop(s, RunLen(s, WhiteSpace)))

-----------------------------------------------------------------------------
(* JavaScript values *)

Undefined == [t |-> "undefined"]
Null == [t |-> "null"]
Str(s) == [t |-> "string", s |-> s]
Arr(a) == [t |-> "array", a |-> a]
Obj(o) == [t |-> "object", o |-> o]
Fn == [t |-> "function"]
Num == [t |-> "number"]
Err(name) == [t |-> "Error", name |-> name]
Bool(b) == [t |-> "boolean", v |-> b]

EmptyObject == <<>>

\* o[k] of a JavaScript object: undefined when the property is not set
Get(o, k) == IF k \in DOMAIN o THEN o[k] ELSE Undefined

\* o[k] = v
Put(o, k, v) == [x \in (DOMAIN o) \cup {k} |-> IF x = k THEN v ELSE o[x]]

\* delete o[k]
Delete(o, k) == [x \in (DOMAIN o) \ {k} |-> o[x]]

Truthy(v) ==
  CASE v.t = "undefined" -> FALSE
    [] v.t = "null" -> FALSE
    [] v.t = "string" -> Len(v.s) > 0
    [] v.t = "boolean" -> v.v
    [] OTHER -> TRUE

\* a || b
Or(a, b) == IF Truthy(a) THEN a ELSE b

\* typeof v
TypeOf(v) ==
  CASE v.t \in {"null", "array", "object", "Error"} -> "object"
    [] OTHER -> v.t

\* String(v) for the values a header can hold: an array joins with commas
StringOf(v) ==
  CASE v.t = "string" -> v.s
    [] v.t = "array" -> Join(v.a, <<",">>)
    [] OTHER -> sUndefined

-----------------------------------------------------------------------------
(* The regular expressions of the parser *)

NoMatch == [ok |-> FALSE]

\* /^\s+([^\r\n]+)/ : a header continuation line.  \s+ is greedy and gives
\* characters back until one character that is neither CR nor LF follows it.
ContinuationMatch(line) ==
  The({IF k = 0 THEN NoMatch ELSE [ok |-> TRUE, g1 |-> TakeLine(Drop(line, k))] :
         k \in {Greatest({k \in 1..RunLen(line, WhiteSpace) :
                            k < Len(line) /\ line[k + 1] \notin {CR, LF}})}})

\* /^([\w\d\-]+):\s*([^\r\n]*)/gi : a header line, name and value
HeaderMatch(line) ==
  The({IF n >= 1 /\ n < Len(line) /\ line[n + 1] = ":"
       THEN [ok |-> TRUE, g1 |-> SubSeq(line, 1, n),
             g2 |-> The({TakeLine(Drop(rest, RunLen(rest, WhiteSpace))) :
                           rest \in {Drop(line, n + 1)}})]
       ELSE NoMatch :
         n \in {RunLen(line, HeaderNameChars)}})

\* /^\-\-([^\r\n]+)(\r?\n)?$/g : a boundary marker line and its token
MarkerMatch(line) ==
  IF ~StartsWith(line, sDashDash) THEN NoMatch
  ELSE The({IF Len(tok) >= 1 /\ Drop(line, 2 + Len(tok)) \in {<<>>, <<LF>>, <<CR, LF>>}
            THEN [ok |-> TRUE, g1 |-> tok]
            ELSE NoMatch :
              tok \in {TakeLine(Drop(line, 2))}})

\* /^multipart\//g.test(ct): the argument is converted to a string
IsMultipartType(ct) == StartsWith(StringOf(ct), sMultipartSlash)

\* getBoundary of utils: the boundary parameter of a Content-Type value, with
\* its quotes and any further ;-parameters removed; undefined when the value
\* names none.  The boundary token cannot span a line break.
getBoundary(ct) ==
  The({IF p <= 1 \/ s[p - 1] \notin {"B", "b"} THEN Undefined
       ELSE The({IF Len(tok) = 0 \/ \E i \in 1..Len(tok) : tok[i] \in {CR, LF}
                 THEN Undefined ELSE Str(tok) :
                   tok \in {IF Len(cut) > 1 /\ cut[Len(cut)] \in {"'", "\""}
                            THEN SubSeq(cut, 1, Len(cut) - 1) ELSE cut :
                   cut \in {TrimEnd(IF IndexOf(unq, <<";">>) = 0 THEN unq
                                    ELSE SubSeq(unq, 1, IndexOf(unq, <<";">>) - 1)) :
                   unq \in {IF Len(after) > 0 /\ after[1] \in {"'", "\""} THEN Tail(after) ELSE after :
                   after \in {Drop(s, p + Len(sOundaryEq) - 1)}}}}}) :
         s \in {StringOf(ct)}, p \in {IndexOf(StringOf(ct), sOundaryEq)}})

-----------------------------------------------------------------------------
(* parseRecursive: the top-down parser *)

\* options && options.headersOnly
HeadersOnly(opts) == Truthy(opts) /\ opts.t = "object" /\ Truthy(Get(opts.o, "headersOnly"))

\* parent.headers['Content-Type'] || parent.headers['Content-type']
ContentTypeOf(headers) == Or(Get(headers, sContentType), Get(headers, sContenttype))

\* The locals of one parseRecursive call.  boundary is the index in
\* parent.body of the object the local `boundary` refers to (0: null); brk
\* and thrown tell how the for loop ended.
NewScan(parent) ==
  [parent |-> Put(parent, "headers", EmptyObject),
   boundary |-> 0, lastHeaderName |-> <<>>, findBoundary |-> <<>>,
   insideBody |-> FALSE, insideBoundary |-> FALSE, isMultiHeader |-> FALSE,
   isMultipart |-> FALSE, checkedForCt |-> FALSE, ctInBody |-> FALSE,
   brk |-> FALSE, thrown |-> FALSE]

SetHeaders(st, h) == [st EXCEPT !.parent = Put(st.parent, "headers", h)]

\* parent.body[k] = b
SetBoundary(st, k, b) ==
  [st EXCEPT !.parent = Put(st.parent, "body",
                            Arr([st.parent["body"].a EXCEPT ![k] = b]))]

\* the object the local `boundary` refers to
LocalBoundary(st) == st.parent["body"].a[st.boundary]

RECURSIVE parseRecursive(_, _, _, _)

\* complete(boundary): boundary.part = {}; parse its lines into it; delete
\* boundary.lines.  When the nested parse throws, the lines stay and the part
\* is left as far as it was filled.
complete(boundary, opts) ==
  The({IF r.thrown
       THEN [thrown |-> TRUE, boundary |-> Put(boundary, "part", r.node)]
       ELSE [thrown |-> FALSE, boundary |-> Delete(Put(boundary, "part", r.node), "lines")] :
         r \in {parseRecursive(boundary["lines"], 0, EmptyObject, opts)}})

\* a blank line in header mode that does not look at options.headersOnly
BlankLineStepAll(lines, i, st, opts) ==
  LET st1 == [st EXCEPT !.insideBody = TRUE]
      ct == ContentTypeOf(st.parent["headers"])
  IN IF ~Truthy(ct)
     THEN IF st.checkedForCt THEN [st1 EXCEPT !.insideBody = ~st.ctInBody]
          ELSE LET trimmedStrin == Trim(Join(SubSeq(lines, i + 1, Len(lines)), sCRLF))
               IN IF StartsWith(trimmedStrin, sContentType) \/ StartsWith(trimmedStrin, sContenttype)
                  THEN [st1 EXCEPT !.checkedForCt = TRUE, !.insideBody = FALSE, !.ctInBody = TRUE]
                  ELSE [st1 EXCEPT !.checkedForCt = TRUE]
     ELSE IF IsMultipartType(ct)
     THEN The({IF Truthy(b) /\ Len(b.s) > 0
               THEN [st1 EXCEPT !.findBoundary = b.s, !.isMultipart = TRUE,
                                !.parent = Put(st.parent, "body", Arr(<<>>))]
               ELSE st1 : b \in {getBoundary(ct)}})
     ELSE st1

\* a blank line in header mode (source lines 279-317)
BlankLineStep(lines, i, st, opts) ==
  LET st1 == [st EXCEPT !.insideBody = TRUE]
      ct == ContentTypeOf(st.parent["headers"])
  IN IF HeadersOnly(opts) THEN [st1 EXCEPT !.brk = TRUE]
     ELSE IF ~Truthy(ct)
     THEN IF st.checkedForCt THEN [st1 EXCEPT !.insideBody = ~st.ctInBody]
          ELSE LET trimmedStrin == Trim(Join(SubSeq(lines, i + 1, Len(lines)), sCRLF))
               IN IF StartsWith(trimmedStrin, sContentType) \/ StartsWith(trimmedStrin, sContenttype)
                  THEN [st1 EXCEPT !.checkedForCt = TRUE, !.insideBody = FALSE, !.ctInBody = TRUE]
                  ELSE [st1 EXCEPT !.checkedForCt = TRUE]
     ELSE IF IsMultipartType(ct)
     THEN The({IF Truthy(b) /\ Len(b.s) > 0
               THEN [st1 EXCEPT !.findBoundary = b.s, !.isMultipart = TRUE,
                                !.parent = Put(st.parent, "body", Arr(<<>>))]
               ELSE st1 : b \in {getBoundary(ct)}})
     ELSE st1

\* a header continuation line (source lines 320-328)
ContinuationStep(st, m) ==
  LET h == st.parent["headers"]
      name == st.lastHeaderName
      old == Get(h, name)
      add == sCRLF \o m.g1
  IN IF st.isMultiHeader
     THEN SetHeaders(st, Put(h, name,
            Arr([old.a EXCEPT ![Len(old.a)] = old.a[Len(old.a)] \o add])))
     ELSE SetHeaders(st, Put(h, name, Str(StringOf(old) \o add)))

\* a Name: value line (source lines 331-347)
HeaderStep(st, m) ==
  LET h == st.parent["headers"]
      name == m.g1
      old == Get(h, name)
  IN IF Truthy(old)
     THEN LET list == IF old.t = "string" THEN <<old.s>> ELSE old.a
          IN [SetHeaders(st, Put(h, name, Arr(Append(list, m.g2))))
                EXCEPT !.lastHeaderName = name, !.isMultiHeader = TRUE]
     ELSE [SetHeaders(st, Put(h, name, Str(m.g2)))
             EXCEPT !.lastHeaderName = name, !.isMultiHeader = FALSE]

\* a push that does not look at the match: a line the pattern rejects opens a
\* boundary without a delimiter
PushBoundaryUnchecked(st, line) ==
  LET match == MarkerMatch(line)
      body == st.parent["body"].a
  IN [st EXCEPT !.parent = Put(st.parent, "body",
                   Arr(Append(body, [boundary |-> IF match.ok THEN match.g1 ELSE <<>>,
                                     lines |-> <<>>]))),
                !.boundary = Len(body) + 1]

\* boundary = {boundary: match[1], lines: []}; parent.body.push(boundary).
\* A null match makes match[1] throw a TypeError.
PushBoundary(st, line) ==
  LET match == MarkerMatch(line)
      body == st.parent["body"].a
  IN IF ~match.ok THEN [st EXCEPT !.thrown = TRUE]
     ELSE [st EXCEPT !.parent = Put(st.parent, "body",
                        Arr(Append(body, [boundary |-> match.g1, lines |-> <<>>]))),
                     !.boundary = Len(body) + 1]

\* a boundary start that pushes the new boundary and leaves the open one as
\* it is, with its lines and without a part
BoundaryStartStepUnresolved(st, line, opts) ==
  PushBoundary([st EXCEPT !.insideBoundary = TRUE], line)

\* a boundary start line (source lines 357-375)
BoundaryStartStep(st, line, opts) ==
  LET st1 == [st EXCEPT !.insideBoundary = TRUE]
  IN IF st.boundary # 0 /\ "lines" \in DOMAIN LocalBoundary(st)
     THEN The({LET st2 == SetBoundary(st1, st.boundary, c.boundary)
               IN IF c.thrown THEN [st2 EXCEPT !.thrown = TRUE] ELSE PushBoundary(st2, line) :
                 c \in {complete(LocalBoundary(st), opts)}})
     ELSE PushBoundary(st1, line)

\* a line inside an open boundary, with a closing marker that counts only
\* after a blank line and is a line of the part otherwise
InsideBoundaryStepStrict(lines, i, st, line, opts) ==
  LET endMarker == sDashDash \o st.findBoundary \o sDashDash
      b == LocalBoundary(st)
  IN IF i >= 1 /\ lines[i] = <<>> /\ StartsWith(line, endMarker)
     THEN The({LET st1 == SetBoundary([st EXCEPT !.insideBoundary = FALSE], st.boundary, c.boundary)
               IN IF c.thrown THEN [st1 EXCEPT !.thrown = TRUE] ELSE st1 :
                 c \in {complete(b, opts)}})
     ELSE SetBoundary(st, st.boundary, Put(b, "lines", Append(b["lines"], line)))

\* a line inside an open boundary (source lines 377-388)
InsideBoundaryStep(lines, i, st, line, opts) ==
  LET endMarker == sDashDash \o st.findBoundary \o sDashDash
      named == st.boundary # 0 /\ Len(LocalBoundary(st)["boundary"]) > 0
      prevBlank == i >= 1 /\ lines[i] = <<>>
  IN IF named /\ prevBlank /\ StartsWith(line, endMarker)
     THEN The({LET st1 == SetBoundary([st EXCEPT !.insideBoundary = FALSE], st.boundary, c.boundary)
               IN IF c.thrown THEN [st1 EXCEPT !.thrown = TRUE] ELSE st1 :
                 c \in {complete(LocalBoundary(st), opts)}})
     ELSE IF named /\ StartsWith(line, endMarker) THEN st
     ELSE IF st.boundary # 0
     THEN LET b == LocalBoundary(st)
          IN IF "lines" \in DOMAIN b
             THEN SetBoundary(st, st.boundary, Put(b, "lines", Append(b["lines"], line)))
             ELSE [st EXCEPT !.thrown = TRUE]
     ELSE st

\* one pass of the for loop over line i (0-based, as in the source)
LineStep(lines, i, st, opts) ==
  LET line == lines[i + 1]
  IN IF ~st.insideBody
     THEN IF line = <<>> THEN BlankLineStep(lines, i, st, opts)
          ELSE IF ContinuationMatch(line).ok THEN ContinuationStep(st, ContinuationMatch(line))
          ELSE IF HeaderMatch(line).ok THEN HeaderStep(st, HeaderMatch(line))
          ELSE st
     ELSE IF st.isMultipart
     THEN IF StartsWith(line, sDashDash \o st.findBoundary)
             /\ ~StartsWith(line, sDashDash \o st.findBoundary \o sDashDash)
          THEN BoundaryStartStep(st, line, opts)
          ELSE IF st.insideBoundary THEN InsideBoundaryStep(lines, i, st, line, opts)
          ELSE st
     ELSE [st EXCEPT !.parent = Put(st.parent, "body",
                                    Str(Join(SubSeq(lines, i + 1, Len(lines)), sCRLF))),
                     !.brk = TRUE]

RECURSIVE ScanLines(_, _, _, _)
ScanLines(lines, i, st, opts) ==
  IF i >= Len(lines) \/ st.brk \/ st.thrown THEN st
  ELSE The({ScanLines(lines, i + 1, next, opts) : next \in {LineStep(lines, i, st, opts)}})

\* an end of the scan that leaves the last boundary as it is
CompleteNone(st, opts) == st

\* "Complete the last boundary" (source lines 397-400)
CompleteLast(st, opts) ==
  LET body == Get(st.parent, "body")
  IN IF body.t = "array" /\ Len(body.a) > 0 /\ "lines" \in DOMAIN body.a[Len(body.a)]
     THEN The({[SetBoundary(st, Len(body.a), c.boundary) EXCEPT !.thrown = c.thrown] :
                 c \in {complete(body.a[Len(body.a)], opts)}})
     ELSE st

\* The result: thrown tells whether an exception left the call; node is the
\* parent object as the call left it.
parseRecursive(lines, start, parent, opts) ==
  The({[thrown |-> done.thrown, node |-> done.parent] :
         done \in {IF scanned.thrown THEN scanned ELSE CompleteLast(scanned, opts) :
                     scanned \in {ScanLines(lines, start, NewScan(parent), opts)}}})

-----------------------------------------------------------------------------
(* parse *)

\* What a public call leaves behind: the value it returned, the callback
\* invocations it made (error, result), and whether an exception left it.
Outcome(value, calls, esc) == [ret |-> value, cbLog |-> calls, escaped |-> esc]

\* callback && callback(error, result)
Invoke(cb, error, result) ==
  IF Truthy(cb) THEN <<[error |-> error, result |-> result]>> ELSE <<>>

\* the try block of parse (source lines 230-237): whether it threw, what it
\* threw, and result as it left it.  parseRecursive fills the object result
\* refers to, so what it had filled in when it threw stays in result.
parseTry(emlArg, opts) ==
  IF emlArg.t # "string"
  THEN [thrown |-> TRUE, exception |-> Err("Argument eml expected to be string"),
        result |-> Obj(EmptyObject)]
  ELSE The({[thrown |-> r.thrown, exception |-> Err("TypeError"), result |-> Obj(r.node)] :
              r \in {parseRecursive(lines, 0, EmptyObject, opts) : lines \in {Split(emlArg.s)}}})

\* a parse whose catch clause is missing: what the try block threw leaves it
parseNoCatch(t) ==
  [error |-> Undefined, result |-> t.result, escaped |-> t.thrown]

\* catch (e) { error = e } (source lines 237-239): whatever the try block
\* threw becomes the error, and nothing leaves the statement
parseCatch(t) ==
  [error |-> IF t.thrown THEN t.exception ELSE Undefined, result |-> t.result, escaped |-> FALSE]

parse(emlArg, optionsArg, callbackArg) ==
  LET shift == optionsArg.t = "function" /\ callbackArg.t = "undefined"
      cb == IF shift THEN optionsArg ELSE callbackArg
      opts1 == IF shift THEN Null ELSE optionsArg
      opts == IF TypeOf(opts1) # "object" THEN Obj([headersOnly |-> Bool(FALSE)]) ELSE opts1
  IN The({IF c.escaped THEN Outcome(Undefined, <<>>, TRUE)
          ELSE Outcome(Or(c.error, Or(c.result, Err("read EML failed"))),
                       Invoke(cb, c.error, c.result), FALSE) :
            c \in {parseCatch(t) : t \in {parseTry(emlArg, opts)}}})

-----------------------------------------------------------------------------
(* Header-value decoding: decodeJoint, unquotePrintable, unquoteString *)

HexDigits == Digits \cup {"a","b","c","d","e","f","A","B","C","D","E","F"}

\* /=\?([^?]+)\?(B|Q)\?(.+?)(\?=)/gi tried at position p of s: the charset is
\* the run of non-? characters after "=?", the payload the shortest non-empty
\* run without a line break that "?=" follows.
EncodedWordAt(s, p) ==
  IF ~(p + 1 <= Len(s) /\ s[p] = "=" /\ s[p + 1] = "?") THEN NoMatch
  ELSE The({IF q >= p + 2 /\ q + 3 <= Len(s) /\ s[q + 1] = "?"
               /\ s[q + 2] \in {"B", "b", "Q", "q"} /\ s[q + 3] = "?"
            THEN The({IF k = 0 THEN NoMatch
                      ELSE [ok |-> TRUE, len |-> (q + 3 + k + 2) - p + 1,
                            charset |-> SubSeq(s, p + 2, q), type |-> s[q + 2],
                            value |-> SubSeq(s, q + 4, q + 3 + k)] :
                        k \in {Least({e \in 1..(Len(s) - q - 5) :
                                        /\ \A j \in 1..e : s[q + 3 + j] \notin {CR, LF}
                                        /\ s[q + 3 + e + 1] = "?" /\ s[q + 3 + e + 2] = "="})}})
            ELSE NoMatch :
              q \in {p + 1 + RunLen(rest, {rest[i] : i \in 1..Len(rest)} \ {"?"}) :
                       rest \in {Drop(s, p + 1)}}})

\* the first position from p on where the pattern matches, 0 when none does
NextEncodedWord(s, p) == Least({k \in p..Len(s) : EncodedWordAt(s, k).ok})

\* str.match(regex) with the g flag: the matched substrings, left to right
RECURSIVE EncodedWords(_, _)
EncodedWords(s, p) ==
  The({IF k = 0 THEN <<>>
       ELSE The({<<SubSeq(s, k, k + n - 1)>> \o EncodedWords(s, k + n) :
                   n \in {EncodedWordAt(s, k).len}}) :
         k \in {NextEncodedWord(s, p)}})

\* the first match of the pattern in s, as regex.exec finds it
FirstEncodedWord(s) ==
  The({IF k = 0 THEN NoMatch ELSE EncodedWordAt(s, k) : k \in {NextEncodedWord(s, 1)}})

\* the characters of s at the positions i with keep[i], in order
KeepChars(s, keep) ==
  LET sel == SelectSeq(Positions(s), LAMBDA i : keep[i])
  IN [k \in 1..Len(sel) |-> s[sel[k]]]

\* mimeDecode of utils and the charset service: every =HH escape becomes one
\* decoded character (written "*"), the rest of an ASCII string is kept
mimeDecode(s) ==
  LET Esc(i) == i >= 1 /\ i + 2 <= Len(s) /\ s[i] = "=" /\ s[i + 1] \in HexDigits /\ s[i + 2] \in HexDigits
      Keep(i) == ~Esc(i - 1) /\ ~Esc(i - 2)
      marked == [i \in 1..Len(s) |-> IF Esc(i) THEN "*" ELSE s[i]]
  IN KeepChars(marked, [i \in 1..Len(marked) |-> Keep(i)])

\* the Base64 codec and the charset service: three decoded characters
\* (written "*") for every four of the payload
Base64Decode(s) == [i \in 1..((Len(s) * 3) \div 4) |-> "*"]

\* s.replace(/[\t ]+$/gm, ''): blanks that only blanks separate from a line
\* end or from the end of s go
StripLineEndBlanks(s) ==
  LET Keep(i) == ~(s[i] \in {" ", "\t"}
                   /\ LET n == RunLen(Drop(s, i), {" ", "\t"})
                      IN i + n = Len(s) \/ s[i + n + 1] \in {CR, LF})
  IN KeepChars(s, [i \in 1..Len(s) |-> Keep(i)])

\* s.replace(/=(?:\r?\n|$)/g, ''): soft line breaks
StripSoftBreaks(s) ==
  LET Soft(i) == IF i < 1 \/ i > Len(s) \/ s[i] # "=" THEN 0
                 ELSE IF i = Len(s) THEN 1
                 ELSE IF s[i + 1] = LF THEN 2
                 ELSE IF i + 2 <= Len(s) /\ s[i + 1] = CR /\ s[i + 2] = LF THEN 3
                 ELSE 0
      Keep(i) == Soft(i) = 0 /\ Soft(i - 1) < 2 /\ Soft(i - 2) < 3
  IN KeepChars(s, [i \in 1..Len(s) |-> Keep(i)])

unquotePrintable(value, qEncoding) ==
  The({mimeDecode(IF qEncoding
                  THEN [i \in 1..Len(rawString) |-> IF rawString[i] = "_" THEN " " ELSE rawString[i]]
                  ELSE rawString) :
         rawString \in {StripSoftBreaks(StripLineEndBlanks(value))}})

\* s.replace(/\r?\n/g, ''): every LF goes, and the CR right before it
StripLineBreaks(s) ==
  LET Keep(i) == ~(s[i] = LF \/ (s[i] = CR /\ i < Len(s) /\ s[i + 1] = LF))
  IN KeepChars(s, [i \in 1..Len(s) |-> Keep(i)])

decodeJoint(str) ==
  The({IF ~match.ok THEN str
       ELSE IF match.type \in {"B", "b"} THEN Base64Decode(StripLineBreaks(match.value))
       ELSE unquotePrintable(match.value, TRUE) :
         match \in {FirstEncodedWord(str)}})

\* s.replace(pat, rep) with a string pattern: the first occurrence only
ReplaceFirst(s, pat, rep) ==
  The({IF k = 0 THEN s ELSE SubSeq(s, 1, k - 1) \o rep \o Drop(s, k + Len(pat) - 1) :
         k \in {IndexOf(s, pat)}})

RECURSIVE DecodeSpins(_, _)
DecodeSpins(decodedString, spins) ==
  IF Len(spins) = 0 THEN decodedString
  ELSE The({DecodeSpins(next, Tail(spins)) :
              next \in {ReplaceFirst(decodedString, spins[1], decodeJoint(spins[1]))}})

\* an unquoteString that returns the decoded string as it is
unquoteCharsKept(str) ==
  The({DecodeSpins(str, spins) : spins \in {EncodedWords(str, 1)}})

\* unquoteString of a string
unquoteChars(str) ==
  The({StripLineBreaks(DecodeSpins(str, spins)) : spins \in {EncodedWords(str, 1)}})

\* unquoteString of any header value: `str || ''`, and an array has no match
\* method, so that call throws a TypeError
unquoteString(v) ==
  IF v.t = "array" THEN [thrown |-> TRUE, value |-> <<>>]
  ELSE [thrown |-> FALSE, value |-> unquoteChars(IF Truthy(v) THEN v.s ELSE <<>>)]

-----------------------------------------------------------------------------
(* read: _append, _read and the public function *)

UpperCase == <<"A","B","C","D","E","F","G","H","I","J","K","L","M","N","O","P","Q","R","S","T","U","V","W","X","Y","Z">>
LowerCase == <<"a","b","c","d","e","f","g","h","i","j","k","l","m","n","o","p","q","r","s","t","u","v","w","x","y","z">>

\* String.prototype.toLowerCase
ToLowerCase(s) ==
  [i \in 1..Len(s) |->
     IF \E k \in 1..Len(UpperCase) : UpperCase[k] = s[i]
     THEN LowerCase[CHOOSE k \in 1..Len(UpperCase) : UpperCase[k] = s[i]]
     ELSE s[i]]

\* v.indexOf(p) >= 0 for a header value: a substring of a string, an element
\* of an array
ValueHas(v, p) ==
  CASE v.t = "string" -> Contains(v.s, p)
    [] v.t = "array" -> \E k \in 1..Len(v.a) : v.a[k] = p
    [] OTHER -> FALSE

WordChars == Letters \cup Digits \cup {"_"}

\* what follows the word charset in a match of the pattern below: white
\* space, "=", characters that are no word characters, and the label.  The
\* label starts at start, the last place the run of \W* can end at.
CharsetLabel(rest) ==
  The({IF ws < Len(rest) /\ rest[ws + 1] = "="
       THEN The({The({IF start = 0 THEN Undefined
                      ELSE The({Str(SubSeq(tail, 1, RunLen(tail, WordChars \cup {"-"}))) :
                                  tail \in {Drop(rest2, start - 1)}}) :
                        start \in {Greatest({k \in 1..(RunLen(rest2, {rest2[i] : i \in 1..Len(rest2)} \ WordChars) + 1) :
                                               k <= Len(rest2) /\ rest2[k] \in WordChars \cup {"-"}})}}) :
                   rest2 \in {Drop(rest, ws + 1)}})
       ELSE Undefined :
         ws \in {RunLen(rest, WhiteSpace)}})

\* /charset\s*=\W*([\w\-]+)/g.exec(contentType): the argument is converted to
\* a string; \W* is greedy and gives back until a character of the label
\* follows
getCharset(contentType) ==
  The({The({IF first = 0 THEN Undefined ELSE label[first] :
              first \in {Least({p \in DOMAIN label : label[p] # Undefined})}}) :
         label \in {[p \in 1..Len(s) |-> IF StartsWith(Drop(s, p - 1), sCharset)
                                          THEN CharsetLabel(Drop(s, p + Len(sCharset) - 1))
                                          ELSE Undefined] :
                      s \in {StringOf(contentType)}}})

\* getCharsetName of utils: the canonical label, lower case without
\* punctuation ('utf-8' becomes 'utf8')
getCharsetName(label) ==
  LET low == ToLowerCase(label)
      Keep(i) == low[i] \in Letters \cup Digits
  IN KeepChars(low, [i \in 1..Len(low) |-> Keep(i)])

\* the charset service's decode: the text of a byte buffer, nothing for
\* undefined; text passes through
decode(content) ==
  CASE content.t = "string" -> [thrown |-> FALSE, value |-> content]
    [] content.t = "undefined" -> [thrown |-> FALSE, value |-> Str(<<>>)]
    [] content.t = "bytes" -> [thrown |-> FALSE, value |-> Str(content.s)]
    [] OTHER -> [thrown |-> TRUE, value |-> Undefined]

\* the transfer decoding at the head of _append (source lines 521-539): for
\* base64 the text is encoded to bytes with its line breaks removed, for
\* quoted-printable it is decoded, for 8bit and binary with a charset other
\* than utf8 it goes through the charset service.  A content that is no
\* string has no replace method, an encoding that is no string no search
\* method.
TransferDecode(encoding, charset, content) ==
  IF encoding = Str(sBase64)
  THEN IF content.t = "string"
       THEN [thrown |-> FALSE, value |-> [t |-> "bytes", s |-> StripLineBreaks(content.s)]]
       ELSE [thrown |-> TRUE, value |-> content]
  ELSE IF encoding = Str(sQuotedPrintable)
  THEN IF content.t = "string"
       THEN [thrown |-> FALSE, value |-> Str(unquotePrintable(content.s, FALSE))]
       ELSE [thrown |-> TRUE, value |-> content]
  ELSE IF Truthy(encoding) /\ charset # sUtf8
  THEN IF encoding.t # "string" THEN [thrown |-> TRUE, value |-> content]
       ELSE IF StartsWith(encoding.s, sBinary) \/ StartsWith(encoding.s, s8bit)
       THEN decode(content)
       ELSE [thrown |-> FALSE, value |-> content]
  ELSE [thrown |-> FALSE, value |-> content]

\* result.text += content, or result.text = content when it is still empty
Concat(result, field, chars) ==
  IF Truthy(Get(result, field)) THEN Put(result, field, Str(result[field].s \o chars))
  ELSE Put(result, field, Str(chars))

Base64Alphabet == Letters \cup Digits \cup {"+", "/"}

\* Base64.btoa(Base64.atob(s)) == s without an exception: s is base64 text in
\* whole groups of four, padded at its end only
IsBase64Text(s) ==
  /\ Len(s) % 4 = 0
  /\ \A i \in 1..Len(s) :
       \/ s[i] \in Base64Alphabet
       \/ s[i] = "=" /\ i >= Len(s) - 1 /\ i > 1 /\ (i = Len(s) \/ s[i + 1] = "=")

\* content.replace(/\r\n|(&quot;)/g, ''), then the Base64 decoding of the
\* html branch (source lines 546-556)
HtmlContent(content, based) ==
  LET Break(i) == i >= 1 /\ i + 1 <= Len(content) /\ content[i] = CR /\ content[i + 1] = LF
      Quot(i) == i >= 1 /\ i + 5 <= Len(content) /\ SubSeq(content, i, i + 5) = sQuot
      Keep(i) == ~Break(i) /\ ~Break(i - 1) /\ \A d \in 0..5 : ~Quot(i - d)
      htmlContent == KeepChars(content, [i \in 1..Len(content) |-> Keep(i)])
  IN IF based \/ IsBase64Text(htmlContent) THEN Base64Decode(htmlContent) ELSE htmlContent

\* decodeURI: a % that two hex digits do not follow raises a URIError; an
\* escape becomes one decoded character (written "*")
decodeURI(s) ==
  LET Bad(i) == s[i] = "%" /\ ~(i + 2 <= Len(s) /\ s[i + 1] \in HexDigits /\ s[i + 2] \in HexDigits)
      Esc(i) == i >= 1 /\ i + 2 <= Len(s) /\ s[i] = "%"
      Keep(i) == ~Esc(i - 1) /\ ~Esc(i - 2)
      marked == [i \in 1..Len(s) |-> IF Esc(i) THEN "*" ELSE s[i]]
  IN [thrown |-> \E i \in 1..Len(s) : Bad(i), value |-> KeepChars(marked, [i \in 1..Len(marked) |-> Keep(i)])]

\* One element of name.replace(/(\s|'|utf-8|\*[0-9]\*)/g, '').split(';'),
\* through /name[\*]?="?(.+?)"?$/gi.exec: what follows the first name= or
\* name*= that something follows, less one quote at either end
NamePiece(v) ==
  The({The({IF first = 0 THEN <<>>
            ELSE SubSeq(v, from[first],
                        IF Len(v) > from[first] /\ v[Len(v)] = "\"" THEN Len(v) - 1 ELSE Len(v)) :
              first \in {Least({p \in DOMAIN from : from[p] > 0})}}) :
         from \in {[p \in 1..Len(v) |->
                     IF ~StartsWith(Drop(low, p - 1), sName) THEN 0
                     ELSE The({IF q1 <= Len(v) /\ v[q1] = "="
                               THEN IF q1 + 2 <= Len(v) /\ v[q1 + 1] = "\"" THEN q1 + 2
                                    ELSE IF q1 + 1 <= Len(v) THEN q1 + 1 ELSE 0
                               ELSE 0 :
                                 q1 \in {IF q <= Len(v) /\ v[q] = "*" THEN q + 1 ELSE q :
                                           q \in {p + Len(sName)}}})] :
                   low \in {ToLowerCase(v)}}})

\* the characters the name scan removes first: white space, quotes, the word
\* utf-8 and the continuation counters *0* .. *9*
NameText(name) ==
  LET Word(i) == i >= 1 /\ i + 4 <= Len(name) /\ SubSeq(name, i, i + 4) = sUtfDash8
      Shape(i) == i >= 1 /\ i + 2 <= Len(name) /\ name[i] = "*"
                  /\ name[i + 1] \in Digits /\ name[i + 2] = "*"
      \* of counters that share a star, the scan takes every other one
      Before(i) == Cardinality({k \in 1..Len(name) : \A j \in 1..k : Shape(i - 2 * j)})
      Counter(i) == Shape(i) /\ Before(i) % 2 = 0
      Keep(i) == /\ name[i] \notin WhiteSpace \cup {"'"}
                 /\ \A d \in 0..4 : ~Word(i - d)
                 /\ \A d \in 0..2 : ~Counter(i - d)
  IN KeepChars(name, [i \in 1..Len(name) |-> Keep(i)])

\* ....split(';').map(exec).reduce(...): the pieces of all elements, joined
RECURSIVE NamePieces(_)
NamePieces(text) ==
  The({NamePiece(SubSeq(text, 1, IF semi = 0 THEN Len(text) ELSE semi - 1))
       \o (IF semi = 0 THEN <<>> ELSE NamePieces(Drop(text, semi))) :
         semi \in {IndexOf(text, <<";">>)}})

\* the loop over NameContainer (source lines 603-623): the first header of
\* the three that yields a name; a header value that is an array has no
\* replace method
RECURSIVE ResultName(_, _)
ResultName(headers, keys) ==
  IF Len(keys) = 0 THEN [thrown |-> FALSE, value |-> <<>>]
  ELSE The({The({IF ~Truthy(name) \/ (name.t = "string" /\ Len(found) = 0)
                 THEN ResultName(headers, Tail(keys))
                 ELSE IF name.t # "string" THEN [thrown |-> TRUE, value |-> <<>>]
                 ELSE [thrown |-> FALSE, value |-> found] :
                   found \in {IF name.t = "string" THEN NamePieces(NameText(name.s)) ELSE <<>>}}) :
              name \in {Get(headers, keys[1])}})

\* if (cond) o[k] = v
PutIf(cond, k, v, o) == IF cond THEN Put(o, k, v) ELSE o

\* The attachment branch (source lines 590-640): the attachment object that
\* is pushed.  size is the number parseInt returns.
Attachment(headers) ==
  The({The({[thrown |-> \/ Truthy(cidRaw) /\ cidRaw.t # "string"
                        \/ rn.thrown
                        \/ ~rn.thrown /\ Len(rn.value) > 0 /\ uri.thrown,
             value |->
               PutIf(Truthy(cd), "size", Num,
               PutIf(Truthy(cd), "inline",
                     Bool(StartsWith(Drop(StringOf(cd), RunLen(StringOf(cd), WhiteSpace)), sInline)),
               PutIf(Truthy(ct), "contentType", ct,
               PutIf(Len(rn.value) > 0, "name", Str(uri.value),
               PutIf(Len(cid) > 0, "contentId", Str(cid), EmptyObject)))))] :
              uri \in {decodeURI(rn.value)},
              cid \in {IF Len(a) > 0 /\ a[Len(a)] = ">" THEN SubSeq(a, 1, Len(a) - 1) ELSE a :
                        a \in {IF cidRaw.t # "string" THEN <<>>
                               ELSE IF StartsWith(cidRaw.s, <<"<">>) THEN Tail(cidRaw.s)
                               ELSE cidRaw.s}}}) :
         cidRaw \in {Or(Get(headers, sContentID), Get(headers, sContentId))},
         ct \in {ContentTypeOf(headers)},
         cd \in {Get(headers, sContentDisposition)},
         rn \in {ResultName(headers, <<sContentDisposition, sContentType, sContenttype>>)}})

\* a dispatch that takes every leaf for plain text
_appendAsText(headers, content, acc) ==
  [acc EXCEPT !.result = Concat(acc.result, "text", StringOf(content)),
              !.leaves = Append(acc.leaves, "text")]

\* _append: acc holds the result under construction, the kinds of the leaves
\* dispatched so far (in order) and whether an exception was thrown
_append(headers, content, acc) ==
  IF acc.thrown THEN acc
  ELSE The({The({
    IF td.thrown THEN [acc EXCEPT !.thrown = TRUE]
    ELSE IF ~Truthy(contentDisposition) /\ Truthy(contentType) /\ ValueHas(contentType, sTextHtml)
    THEN The({IF text.thrown THEN [acc EXCEPT !.thrown = TRUE]
              ELSE [acc EXCEPT
                     !.result = Put(Concat(acc.result, "html", HtmlContent(text.value.s, based)),
                                    "htmlheaders", partHeaders),
                     !.leaves = Append(acc.leaves, "html")] :
                text \in {decode(td.value)}})
    ELSE IF ~Truthy(contentDisposition) /\ Truthy(contentType) /\ ValueHas(contentType, sTextPlain)
    THEN The({IF text.thrown THEN [acc EXCEPT !.thrown = TRUE]
              ELSE [acc EXCEPT
                     !.result = Put(Concat(acc.result, "text",
                                           IF based THEN Base64Decode(text.value.s) ELSE text.value.s),
                                    "textheaders", partHeaders),
                     !.leaves = Append(acc.leaves, "text")] :
                text \in {decode(td.value)}})
    ELSE The({IF a.thrown THEN [acc EXCEPT !.thrown = TRUE]
              ELSE [acc EXCEPT
                     !.result = Put(acc.result, "attachments",
                                    Arr(Append(IF "attachments" \in DOMAIN acc.result
                                               THEN acc.result["attachments"].a ELSE <<>>,
                                               a.value))),
                     !.leaves = Append(acc.leaves, "attachment")] :
                a \in {Attachment(headers)}}) :
      td \in {TransferDecode(encoding, charset, content) :
                charset \in {getCharsetName(IF Truthy(label) THEN label.s ELSE defaultCharset) :
                             label \in {getCharset(contentType)}}},
      based \in {encoding = Str(sBase64)},
      partHeaders \in {Put(Put(EmptyObject, sContentType, contentType), sContentTransferEncoding,
                           IF Truthy(encoding) THEN encoding ELSE Str(<<>>))}}) :
    contentType \in {ContentTypeOf(headers)},
    contentDisposition \in {Get(headers, sContentDisposition)},
    encoding \in {IF enc0.t = "string" THEN Str(ToLowerCase(enc0.s)) ELSE enc0 :
                  enc0 \in {Or(Get(headers, sContentTransferEncoding),
                               Get(headers, sContenttransferencoding))}}})

\* the forEach over a third-level body (source lines 722-724)
RECURSIVE AppendEach(_, _)
AppendEach(bounds, acc) ==
  IF Len(bounds) = 0 THEN acc
  ELSE The({AppendEach(Tail(bounds), next) :
              next \in {_append(bounds[1]["part"]["headers"], Get(bounds[1]["part"], "body"), acc)}})

\* the loop over j of a nested body (source lines 712-728)
RECURSIVE WalkNested(_, _)
WalkNested(body, acc) ==
  IF Len(body) = 0 THEN acc
  ELSE LET selfBoundary == body[1]
           headers == selfBoundary["part"]["headers"]
           content == Get(selfBoundary["part"], "body")
       IN The({WalkNested(Tail(body), next) :
                 next \in {IF content.t = "array" THEN AppendEach(content.a, acc)
                           ELSE _append(headers, content, acc)}})

\* one boundaryBlock of the root body (source lines 685-730)
WalkBlock(boundaryBlock, acc) ==
  IF "part" \notin DOMAIN boundaryBlock THEN acc
  ELSE LET part == boundaryBlock["part"]
           body == Get(part, "body")
           ct == ContentTypeOf(part["headers"])
       IN IF body.t = "undefined" THEN acc
          ELSE IF body.t = "string" THEN _append(part["headers"], body, acc)
          ELSE LET acc1 ==
                     IF Truthy(ct) /\ ValueHas(ct, sMultipart)
                        /\ "multipartAlternative" \notin DOMAIN acc.result
                     THEN [acc EXCEPT !.result =
                             Put(acc.result, "multipartAlternative", Put(EmptyObject, sContentType, ct))]
                     ELSE acc
               IN WalkNested(body.a, acc1)

RECURSIVE WalkRoot(_, _)
WalkRoot(blocks, acc) ==
  IF Len(blocks) = 0 THEN acc
  ELSE The({WalkRoot(Tail(blocks), next) : next \in {WalkBlock(blocks[1], acc)}})

\* getEmailAddress: the header value is decoded and handed to the address
\* tokenizer, whose answer is kept as the list of addresses of that text
getEmailAddress(rawStr) ==
  The({[thrown |-> decoded.thrown, value |-> [t |-> "addresses", of |-> decoded.value]] :
         decoded \in {unquoteString(rawStr)}})

\* if (data.headers[name]) result[field] = c, the header's value converted
SetField(acc, headers, name, field, c) ==
  The({IF a.thrown \/ ~Truthy(Get(headers, name)) THEN a
       ELSE The({IF v.thrown THEN [a EXCEPT !.thrown = TRUE]
                 ELSE [a EXCEPT !.result = Put(a.result, field, v.value)] : v \in {c}}) :
         a \in {acc}})

\* the header, the field of the result and the conversion of each of the
\* assignments at source lines 653-671, in their order
ScalarFieldRows ==
  <<<<sDate, "date", "Date">>, <<sSubject, "subject", "unquoteString">>,
    <<sFrom, "from", "getEmailAddress">>, <<sTo, "to", "getEmailAddress">>,
    <<sCC, "cc", "getEmailAddress">>, <<sCc, "cc", "getEmailAddress">>>>

\* new Date(v), unquoteString(v) or getEmailAddress(v)
Converted(conversion, v) ==
  CASE conversion = "Date" -> [thrown |-> FALSE, value |-> [t |-> "Date", of |-> v]]
    [] conversion = "unquoteString" ->
         The({[thrown |-> u.thrown, value |-> Str(u.value)] : u \in {unquoteString(v)}})
    [] OTHER -> getEmailAddress(v)

RECURSIVE SetFields(_, _, _)
SetFields(acc, headers, rows) ==
  IF Len(rows) = 0 THEN acc
  ELSE The({SetFields(next, headers, Tail(rows)) :
              next \in {SetField(acc, headers, rows[1][1], rows[1][2],
                                 Converted(rows[1][3], Get(headers, rows[1][1])))}})

\* the scalar fields of the result (source lines 653-671): the date, the
\* decoded subject, the addresses, and the headers themselves.  Decoding an
\* array (a repeated header) throws.
ScalarFields(headers) ==
  The({IF a.thrown THEN a ELSE [a EXCEPT !.result = Put(a.result, "headers", headers)] :
         a \in {SetFields([result |-> EmptyObject, thrown |-> FALSE], headers, ScalarFieldRows)}})

\* the try block of _read (source lines 648-736): the accumulator it ends with
readTry(data) ==
  IF "headers" \notin DOMAIN data
  THEN [result |-> EmptyObject, leaves |-> <<>>, thrown |-> TRUE, exception |-> Err("data does't has headers")]
  ELSE LET headers == data["headers"]
           ct == ContentTypeOf(headers)
           body == Get(data, "body")
       IN The({IF acc0.thrown THEN acc0
               ELSE IF Truthy(boundary) /\ body.t = "array" THEN WalkRoot(body.a, acc0)
               ELSE IF body.t = "string" THEN _append(headers, body, acc0)
               ELSE acc0 :
                 acc0 \in {[result |-> sc.result, leaves |-> <<>>, thrown |-> sc.thrown,
                            exception |-> Err("TypeError")] : sc \in {ScalarFields(headers)}},
                 boundary \in {IF Truthy(ct) /\ IsMultipartType(ct) THEN Or(b, Null) ELSE Null :
                                 b \in {getBoundary(ct)}}})

\* catch (e) { return e } (source lines 737-739): whatever the try block
\* threw is returned, and nothing leaves the statement
readCatch(acc) ==
  IF acc.thrown THEN [value |-> acc.exception, leaves |-> <<>>, escaped |-> FALSE]
  ELSE [value |-> Obj(acc.result), leaves |-> acc.leaves, escaped |-> FALSE]

\* _read: 'no data', the caught exception, or the result
_read(data) ==
  IF ~Truthy(data) THEN [value |-> Str(<<"n","o"," ","d","a","t","a">>), leaves |-> <<>>, escaped |-> FALSE]
  ELSE The({readCatch(acc) : acc \in {readTry(data.o)}})

IsErrorValue(v) == v.t = "string" \/ v.t = "Error"

\* what read takes from a _read result (source lines 746-752, 754-759)
FromRead(readResult) ==
  IF readResult.escaped
  THEN [error |-> Undefined, result |-> Undefined, leaves |-> <<>>, escaped |-> TRUE]
  ELSE IF IsErrorValue(readResult.value)
  THEN [error |-> readResult.value, result |-> Undefined, leaves |-> <<>>, escaped |-> FALSE]
  ELSE [error |-> Undefined, result |-> readResult.value, leaves |-> readResult.leaves, escaped |-> FALSE]

\* the if / else if / else of read (source lines 741-762)
readBranches(emlArg, opts) ==
  IF emlArg.t = "string"
  THEN The({LET parseResult == parsed.ret
            IN IF parsed.escaped
               THEN [error |-> Undefined, result |-> Undefined, leaves |-> <<>>, escaped |-> TRUE]
               ELSE IF IsErrorValue(parseResult)
               THEN [error |-> parseResult, result |-> Undefined, leaves |-> <<>>, escaped |-> FALSE]
               ELSE The({FromRead(readResult) : readResult \in {_read(parseResult)}}) :
              parsed \in {parse(emlArg, opts, Undefined)}})
  ELSE IF TypeOf(emlArg) = "object"
  THEN The({FromRead(readResult) : readResult \in {_read(emlArg)}})
  ELSE [error |-> Err("Missing EML file content"), result |-> Undefined, leaves |-> <<>>, escaped |-> FALSE]

\* read (source lines 503-515 and 741-765); leaves is the ghost record of the
\* leaves _append dispatched into the returned result
read(emlArg, optionsArg, callbackArg) ==
  LET shift == optionsArg.t = "function" /\ callbackArg.t = "undefined"
      cb == IF shift THEN optionsArg ELSE callbackArg
      opts == IF shift THEN Null ELSE optionsArg
  IN The({IF b.escaped THEN [ret |-> Undefined, cbLog |-> <<>>, escaped |-> TRUE, leaves |-> <<>>]
          ELSE [ret |-> Or(b.error, Or(b.result, Err("read EML failed"))),
                cbLog |-> Invoke(cb, b.error, b.result),
                escaped |-> FALSE,
                leaves |-> b.leaves] :
            b \in {readBranches(emlArg, opts)}})

-----------------------------------------------------------------------------
(* completeBoundary: the bottom-up resolver *)

RECURSIVE completeBoundary(_)

\* a line of the header section (source lines 427-442): a repeated name
\* overwrites the value
RawHeaderStep(st, line) ==
  LET h == st.part["headers"]
      match == HeaderMatch(line)
      lineMatch == ContinuationMatch(line)
  IN IF line = <<>> THEN [st EXCEPT !.insideBody = TRUE]
     ELSE IF match.ok
     THEN [st EXCEPT !.part = Put(st.part, "headers", Put(h, match.g1, Str(match.g2))),
                     !.lastHeaderName = match.g1]
     ELSE IF lineMatch.ok
     THEN [st EXCEPT !.part = Put(st.part, "headers",
                        Put(h, st.lastHeaderName,
                            Str(StringOf(Get(h, st.lastHeaderName)) \o sCRLF \o lineMatch.g1)))]
     ELSE st

\* a line that follows a blank line and starts with the child's marker
\* (source lines 456-483): the child is resolved and put into the body
ChildMarkerStep(lines, index, st, line) ==
  LET old == Get(st.part, "body")
      next == IF index + 2 <= Len(lines) THEN Str(lines[index + 2]) ELSE Undefined
  IN The({IF Truthy(next) THEN [st1 EXCEPT !.child = [st.child EXCEPT !.lines = <<>>]]
          ELSE IF StartsWith(line, sDashDash \o st.child.boundary \o sDashDash) /\ next = Str(<<>>)
          THEN [st1 EXCEPT !.child = Null, !.brk = TRUE]
          ELSE [st1 EXCEPT !.child = [st1.child EXCEPT !.lines = Append(st1.child.lines, line)]] :
            st1 \in {[st EXCEPT !.part = Put(st.part, "body",
                                   IF old.t = "array" THEN Arr(Append(old.a, c.value))
                                   ELSE Arr(<<c.value>>)),
                                 !.child = [st.child EXCEPT !.lines = c.lines]] :
                       c \in {completeBoundary(st.child)}}})

\* a line of the body (source lines 444-491)
RawBodyStep(lines, index, st, line) ==
  LET match == MarkerMatch(line)
      childBoundaryStr == getBoundary(ContentTypeOf(st.part["headers"]))
  IN IF match.ok /\ StartsWith(line, sDashDash \o StringOf(childBoundaryStr)) /\ st.child = Null
     THEN [st EXCEPT !.child = [boundary |-> match.g1, lines |-> <<>>]]
     ELSE IF st.child # Null /\ Len(st.child.boundary) > 0
     THEN IF index >= 1 /\ lines[index] = <<>> /\ StartsWith(line, sDashDash \o st.child.boundary)
          THEN ChildMarkerStep(lines, index, st, line)
          ELSE [st EXCEPT !.child = [st.child EXCEPT !.lines = Append(st.child.lines, line)]]
     ELSE [st EXCEPT !.part = Put(st.part, "body",
                                  Str(Join(SubSeq(lines, index + 1, Len(lines)), sCRLF))),
                     !.lines = SubSeq(lines, 1, index),
                     !.brk = TRUE]

RECURSIVE ScanRawLines(_, _)
ScanRawLines(index, st) ==
  IF index >= Len(st.lines) \/ st.brk THEN st
  ELSE The({ScanRawLines(index + 1, next) :
              next \in {IF ~st.insideBody THEN RawHeaderStep(st, st.lines[index + 1])
                        ELSE RawBodyStep(st.lines, index, st, st.lines[index + 1])}})

\* value is the BoundaryConvertedData (null for a boundary without a
\* delimiter); lines is boundary.lines as the call leaves that array, which
\* the splice of a string body shortens
completeBoundary(boundary) ==
  IF boundary = Null \/ Len(boundary.boundary) = 0
  THEN [value |-> Null, lines |-> IF boundary = Null THEN <<>> ELSE boundary.lines]
  ELSE The({[value |-> [boundary |-> boundary.boundary, part |-> st.part], lines |-> st.lines] :
              st \in {ScanRawLines(0, [part |-> [headers |-> EmptyObject], lines |-> boundary.lines,
                                       lastHeaderName |-> <<>>, insideBody |-> FALSE,
                                       child |-> Null, brk |-> FALSE])}})

-----------------------------------------------------------------------------
(* The arguments the public functions are called with *)

lnCTB == <<"C","o","n","t","e","n","t","-","T","y","p","e",":"," ","m","u","l","t","i","p","a","r","t","/","m","i","x","e","d",";"," ","b","o","u","n","d","a","r","y","=","B">>
lnCTC == <<"C","o","n","t","e","n","t","-","T","y","p","e",":"," ","m","u","l","t","i","p","a","r","t","/","a","l","t","e","r","n","a","t","i","v","e",";"," ","b","o","u","n","d","a","r","y","=","C">>
lnCTtext == <<"C","o","n","t","e","n","t","-","T","y","p","e",":"," ","t","e","x","t","/","p","l","a","i","n">>
lnX == <<"X",":"," ","y">>
lnCid == <<"C","o","n","t","e","n","t","-","I","D",":"," ","1">>
lnBody == <<"b","o","d","y">>
lnStartB == <<"-","-","B">>
lnEndB == <<"-","-","B","-","-">>
lnStartC == <<"-","-","C">>
lnEndC == <<"-","-","C","-","-">>
\* a marker with a stray carriage return, as "--B\r\r\n" splits
lnBadB == <<"-","-","B",CR>>
lnBadC == <<"-","-","C",CR>>

\* the most chunks of lines a message body is put together from
MaxParts == 2

\* the header sections of the messages
Heads == {<<>>, <<lnX>>, <<lnCTtext>>, <<lnCTB>>}

\* what follows the header section: nothing, or the blank line
Seps == {<<>>, <<<<>>>>}

cBlank == <<<<>>>>
cText == <<lnBody>>
cOpen == <<lnStartB, <<>>>>
cHdrPart == <<lnStartB, lnX>>
cLeaf == <<lnStartB, lnX, <<>>, lnBody>>
cTextLeaf == <<lnStartB, lnCTtext, <<>>, lnBody>>
cEnd == <<lnEndB>>
cClosed == <<lnStartB, lnX, <<>>, lnBody, <<>>, lnEndB>>
cNested == <<lnStartB, lnCTC, <<>>, lnStartC, lnCTtext, <<>>, lnBody, <<>>, lnEndC>>
cDupLeaf == <<lnStartB, lnCid, lnCid, <<>>, lnBody>>
cBad == <<lnBadB>>
cNestedBad == <<lnStartB, lnCTC, <<>>, lnBadC>>

BodyChunks ==
  {cBlank, cText, cOpen, cHdrPart, cLeaf, cTextLeaf, cDupLeaf, cEnd, cClosed, cNested, cBad,
   cNestedBad}

Bodies == UNION {[1..n -> BodyChunks] : n \in 0..MaxParts}

RECURSIVE Flatten(_)
Flatten(chunks) == IF Len(chunks) = 0 THEN <<>> ELSE chunks[1] \o Flatten(Tail(chunks))

\* the raw text of a message: its lines, each ended by CRLF but the last
Texts == {Str(Join(h \o sp \o Flatten(b), sCRLF)) : h \in Heads, sp \in Seps, b \in Bodies}

\* an object without headers, null, and a value that is neither text nor object
NonTexts == {Obj(EmptyObject), Null, Num}

\* (options, callback) as the caller passes them
CallShapes ==
  {<<Undefined, Undefined>>, <<Fn, Undefined>>, <<Null, Fn>>, <<Num, Undefined>>,
   <<Obj([headersOnly |-> Bool(TRUE)]), Fn>>}

-----------------------------------------------------------------------------
(* The calls of the public functions *)

Init ==
  /\ pc = "ready"
  /\ eml \in Texts \cup NonTexts
  /\ \E shape \in CallShapes : options = shape[1] /\ callback = shape[2]
  /\ ret = Undefined
  /\ cbLog = <<>>
  /\ escaped = FALSE
  /\ leaves = <<>>
  /\ tree = Undefined
  /\ raw = Undefined
  /\ topDown = Undefined

\* parse(eml, options, callback)
Parse ==
  /\ pc = "ready"
  /\ \E out \in {parse(eml, options, callback)} :
       ret' = out.ret /\ cbLog' = out.cbLog /\ escaped' = out.escaped
  /\ pc' = "parsed"
  /\ UNCHANGED <<eml, options, callback, leaves, tree, raw, topDown>>

\* read(eml, options, callback)
Read ==
  /\ pc = "ready"
  /\ \E out \in {read(eml, options, callback)} :
       ret' = out.ret /\ cbLog' = out.cbLog /\ escaped' = out.escaped /\ leaves' = out.leaves
  /\ pc' = "read"
  /\ UNCHANGED <<eml, options, callback, tree, raw, topDown>>

\* read(tree, options, callback) with the tree a parse has returned
ReadTree ==
  /\ pc = "parsed"
  /\ ret.t = "object"
  /\ \E out \in {read(ret, options, callback)} :
       ret' = out.ret /\ cbLog' = out.cbLog /\ escaped' = out.escaped /\ leaves' = out.leaves
  /\ tree' = ret
  /\ pc' = "readTree"
  /\ UNCHANGED <<eml, options, callback, raw, topDown>>

Next == Parse \/ Read \/ ReadTree

Spec == Init /\ [][Next]_vars

-----------------------------------------------------------------------------
(* The calls of unquoteString *)

\* the most pieces a header value is put together from
MaxTokens == 4

tkQ == <<"=","?","u","?","Q","?">>
tkB == <<"=","?","u","?","b","?">>
tkEnd == <<"?","=">>

\* the pieces: the two openings of an encoded-word and its end, a payload
\* character, the underscore, the two line breaks and the blank of a fold
Tokens == {tkQ, tkB, tkEnd, <<"x">>, <<"_">>, sCRLF, <<LF>>, <<" ">>}

HeaderValues == {Str(Flatten(ts)) : ts \in UNION {[1..n -> Tokens] : n \in 0..MaxTokens}}

InitUnquote ==
  /\ pc = "ready"
  /\ raw \in HeaderValues
  /\ eml = Undefined /\ options = Undefined /\ callback = Undefined
  /\ ret = Undefined /\ cbLog = <<>> /\ escaped = FALSE /\ leaves = <<>>
  /\ tree = Undefined /\ topDown = Undefined

\* unquoteString(raw)
Unquote ==
  /\ pc = "ready"
  /\ \E out \in {unquoteString(raw)} :
       /\ escaped' = out.thrown
       /\ ret' = IF out.thrown THEN Undefined ELSE Str(out.value)
  /\ pc' = "unquoted"
  /\ UNCHANGED <<eml, options, callback, cbLog, leaves, tree, raw, topDown>>

NextUnquote == Unquote

SpecUnquote == InitUnquote /\ [][NextUnquote]_vars

-----------------------------------------------------------------------------
(* The two resolvers of a boundary's lines *)

\* the most chunks the lines of a boundary are put together from
MaxRawChunks == 4

lnXz == <<"X",":"," ","z">>
lnFold == <<" ","w">>

\* the chunks: a header, the same header name again, a continuation line, the
\* Content-Type of a nested child, the blank line, a body line, a child that
\* opens, and the child's closing marker after a blank line
RawChunks ==
  {<<lnX>>, <<lnXz>>, <<lnFold>>, <<lnCTC>>, cBlank, cText,
   <<lnStartC, lnX, <<>>, lnBody>>, <<<<>>, lnEndC>>}

RawBoundaries ==
  {[boundary |-> <<"B">>, lines |-> Flatten(cs)] :
     cs \in UNION {[1..n -> RawChunks] : n \in 0..MaxRawChunks}}

InitResolve ==
  /\ pc = "ready"
  /\ raw \in RawBoundaries
  /\ eml = Undefined /\ options = Undefined /\ callback = Undefined
  /\ ret = Undefined /\ cbLog = <<>> /\ escaped = FALSE /\ leaves = <<>>
  /\ tree = Undefined /\ topDown = Undefined

\* completeBoundary(raw), and parseRecursive of the same lines into a new part
Resolve ==
  /\ pc = "ready"
  /\ \E bottomUp \in {completeBoundary(raw)},
        down \in {parseRecursive(raw.lines, 0, EmptyObject, Obj([headersOnly |-> Bool(FALSE)]))} :
       /\ ret' = bottomUp.value
       /\ topDown' = IF down.thrown THEN Err("TypeError") ELSE Obj(down.node)
  /\ pc' = "resolved"
  /\ UNCHANGED <<eml, options, callback, cbLog, escaped, leaves, tree, raw>>

NextResolve == Resolve

SpecResolve == InitResolve /\ [][NextResolve]_vars

-----------------------------------------------------------------------------
(* Properties of parse and read *)

\* the calls that have returned
Returned == pc \in {"parsed", "read", "readTree"}

\* the options parse works with are {headersOnly: true}
HeadersOnlyCall == HeadersOnly(IF options.t = "function" /\ callback.t = "undefined" THEN Null ELSE options)

\* C1: whatever the argument and the options are, no exception leaves parse
\* or read: the call returns one value, which is a success value (an object:
\* the tree or the extracted result) or an error value (an Error or a string)
NoEscape ==
  Returned => /\ ~escaped
              /\ ret.t = "object" \/ IsErrorValue(ret)

\* the text of the lines ls
TextOf(ls) == Join(ls, sCRLF)

\* a read has failed inside the dispatch of a leaf whose Content-ID is
\* repeated, after a nested boundary was resolved
LeafFailureReturned ==
  /\ pc = "read"
  /\ eml = Str(TextOf(<<lnCTB, <<>>>> \o cNested \o cDupLeaf))
  /\ ret.t = "Error"
  /\ ~escaped

\* C2: parse of any text with options.headersOnly = true returns a tree whose
\* body is unset
HeadersOnlyLeavesBodyUnset ==
  pc = "parsed" /\ eml.t = "string" /\ HeadersOnlyCall
    => ret.t = "object" /\ "body" \notin DOMAIN ret.o

\* a headersOnly parse of a multipart text that has a part after the blank
\* line has returned
HeadersOnlyOfMultipart ==
  /\ pc = "parsed"
  /\ HeadersOnlyCall
  /\ eml.t = "string"
  /\ StartsWith(eml.s, lnCTB \o sCRLF \o sCRLF \o lnStartB \o sCRLF \o lnX \o sCRLF \o sCRLF \o lnBody)
  /\ ret.t = "object"

\* the tree parse makes of the text eml with its default options
TreeOf(text) == parseRecursive(Split(text.s), 0, EmptyObject, Obj([headersOnly |-> Bool(FALSE)])).node

\* the boundaries of a body list that open a terminal part: one whose body is
\* not a list of boundaries again
RECURSIVE TerminalParts(_)
TerminalParts(bounds) ==
  IF Len(bounds) = 0 THEN 0
  ELSE LET body == Get(bounds[1]["part"], "body")
       IN (IF body.t = "array" THEN TerminalParts(body.a) ELSE 1) + TerminalParts(Tail(bounds))

\* C3: after read(raw) of a multipart message succeeds, the number of leaves
\* dispatched into the result (text, html and attachments) equals the number
\* of boundary-start markers that open a terminal part
LeavesMatchTerminalParts ==
  pc = "read" /\ eml.t = "string" /\ ~HeadersOnlyCall /\ ret.t = "object"
  /\ Get(TreeOf(eml), "body").t = "array"
    => Len(leaves) = TerminalParts(TreeOf(eml)["body"].a)

\* the message of C4 without and with the blank line after its headers
LenientNoBlank == TextOf(<<lnCTB, lnStartB, lnX, <<>>, lnBody, lnEndB>>)
LenientBlank == TextOf(<<lnCTB, <<>>, lnStartB, lnX, <<>>, lnBody, lnEndB>>)

\* the root body is one Boundary B whose part has the header X = y and the
\* body 'body', and X is no root header
OnePartB(root) ==
  /\ root.t = "object"
  /\ Get(root.o, "body").t = "array"
  /\ Len(root.o["body"].a) = 1
  /\ root.o["body"].a[1] = [boundary |-> <<"B">>,
                            part |-> [headers |-> [x \in {<<"X">>} |-> Str(<<"y">>)],
                                      body |-> Str(lnBody)]]
  /\ <<"X">> \notin DOMAIN root.o["headers"]

\* C4 as the spec states it: with no blank line between the headers and
\* '--B', 'X: y', '', 'body', '--B--', parse still finds the one part of B
LenientWithoutBlankLine ==
  pc = "parsed" /\ ~HeadersOnlyCall /\ eml = Str(LenientNoBlank) => OnePartB(ret)

\* C4: when the blank line ends the headers, '--B', 'X: y', '', 'body',
\* '--B--' gives the one part of B although no blank line precedes the
\* closing marker; without that blank line the marker lines are read in header
\* mode, X: y is a root header and the body list stays empty
LenientAfterBlankLine ==
  pc = "parsed" /\ ~HeadersOnlyCall
    => /\ eml = Str(LenientBlank) => OnePartB(ret)
       /\ eml = Str(LenientNoBlank)
            => /\ ret.t = "object"
               /\ Get(ret.o, "body") = Arr(<<>>)
               /\ Get(ret.o["headers"], <<"X">>) = Str(<<"y">>)

\* the message with the blank line has been parsed
LenientBlankParsed ==
  pc = "parsed" /\ ~HeadersOnlyCall /\ eml = Str(LenientBlank) /\ OnePartB(ret)

\* the parsed root has neither a Content-Type nor a Content-Transfer-Encoding
\* header, and its body is one string
PlainSinglePart(text) ==
  /\ text.t = "string"
  /\ LET root == TreeOf(text)
     IN /\ Get(root, "body").t = "string"
        /\ ~Truthy(ContentTypeOf(root["headers"]))
        /\ ~Truthy(Or(Get(root["headers"], sContentTransferEncoding),
                      Get(root["headers"], sContenttransferencoding)))

\* C5 as the spec states it: read of a single-part message without
\* Content-Type and Content-Transfer-Encoding puts the whole body into text
\* and nothing into attachments
PlainBodyIsText ==
  pc = "read" /\ ~HeadersOnlyCall /\ PlainSinglePart(eml)
    => /\ ret.t = "object"
       /\ Get(ret.o, "text") = TreeOf(eml)["body"]
       /\ "attachments" \notin DOMAIN ret.o

\* C5: read of such a message never puts the body into text: the result it
\* returns has text and html unset and the body as its one attachment, the
\* only leaf; or it returns an error value
PlainBodyIsAttachment ==
  pc = "read" /\ ~HeadersOnlyCall /\ PlainSinglePart(eml)
    => \/ IsErrorValue(ret)
       \/ /\ ret.t = "object"
          /\ "text" \notin DOMAIN ret.o
          /\ "html" \notin DOMAIN ret.o
          /\ Get(ret.o, "attachments").t = "array"
          /\ Len(ret.o["attachments"].a) = 1
          /\ leaves = <<"attachment">>

\* a message with one header, the blank line and two body lines has been read
PlainBodyRead ==
  /\ pc = "read"
  /\ ~HeadersOnlyCall
  /\ eml = Str(TextOf(<<lnX, <<>>, lnBody, lnBody>>))
  /\ PlainSinglePart(eml)
  /\ ret.t = "object"
  /\ ret.o["attachments"] = Arr(<<EmptyObject>>)

\* a Part whose body is absent, a string, or a list of resolved Boundaries
RECURSIVE ResolvedPart(_)
ResolvedPart(part) ==
  /\ "headers" \in DOMAIN part
  /\ LET body == Get(part, "body")
     IN \/ body.t = "undefined"
        \/ body.t = "string"
        \/ /\ body.t = "array"
           /\ \A k \in 1..Len(body.a) :
                /\ DOMAIN body.a[k] = {"boundary", "part"}
                /\ Len(body.a[k]["boundary"]) > 0
                /\ ResolvedPart(body.a[k]["part"])

\* C6: in every tree a parse returns, at every depth, a body is absent, a
\* string, or a list of resolved Boundaries: each has a delimiter and a part
\* that is a Part, and holds no raw lines
TreesAreResolved == pc = "parsed" /\ ret.t = "object" => ResolvedPart(ret.o)

\* a tree has been returned for a message whose closing marker is followed
\* by a further boundary start, which is never closed
UnclosedTreeReturned ==
  /\ pc = "parsed"
  /\ ~HeadersOnlyCall
  /\ eml = Str(TextOf(<<lnCTB, <<>>>> \o cClosed \o cLeaf))
  /\ ret.t = "object"
  /\ Len(ret.o["body"].a) = 2
  /\ ret.o["body"].a[2]["part"]["body"] = Str(lnBody)

\* C7: a callback that is given is invoked exactly once, and its pair mirrors
\* the returned value: on failure the error is the returned error and the
\* result is unset, on success the error is unset and the result is the
\* returned value
CallbackMirrorsReturn ==
  Returned /\ (callback.t = "function" \/ options.t = "function")
    => /\ Len(cbLog) = 1
       /\ IsErrorValue(ret) => cbLog[1].error = ret /\ cbLog[1].result = Undefined
       /\ ret.t = "object" => cbLog[1].error = Undefined /\ cbLog[1].result = ret

\* a line of the lines ls opens a boundary of the token tok, and the marker
\* pattern rejects it
MalformedStart(ls, tok) ==
  \E k \in 1..Len(ls) :
    /\ StartsWith(ls[k], sDashDash \o tok)
    /\ ~StartsWith(ls[k], sDashDash \o tok \o sDashDash)
    /\ ~MarkerMatch(ls[k]).ok

\* the text is a multipart message of the boundary B in whose body, or in the
\* body of whose nested part of the boundary C, a malformed start line occurs
HasMalformedStart(text) ==
  /\ text.t = "string"
  /\ StartsWith(text.s, TextOf(<<lnCTB, <<>>, <<>>>>))
  /\ LET ls == Split(text.s)
     IN \/ MalformedStart(ls, <<"B">>)
        \/ \E k \in 1..(Len(ls) - 3) :
             /\ SubSeq(ls, k, k + 2) = <<lnStartB, lnCTC, <<>>>>
             /\ MalformedStart(<<ls[k + 3]>>, <<"C">>)

\* no Boundary of the body list, at any depth, lacks its delimiter
RECURSIVE Delimited(_)
Delimited(part) ==
  Get(part, "body").t = "array"
    => \A k \in 1..Len(part["body"].a) :
         /\ Len(part["body"].a[k]["boundary"]) > 0
         /\ "part" \in DOMAIN part["body"].a[k] => Delimited(part["body"].a[k]["part"])

\* C8: in multipart mode a boundary-start line whose marker token does not
\* parse makes parse return an error value, at the root as in a nested part;
\* no tree is returned for it, and no returned tree holds a Boundary without
\* a delimiter
MalformedMarkerFails ==
  pc = "parsed" /\ ~HeadersOnlyCall
    => /\ HasMalformedStart(eml) => ret.t = "Error"
       /\ ret.t = "object" => Delimited(ret.o)

\* a parse has met the malformed start line of a nested part, after a first
\* part that was resolved
NestedMalformedParsed ==
  /\ pc = "parsed"
  /\ ~HeadersOnlyCall
  /\ eml = Str(TextOf(<<lnCTB, <<>>>> \o cLeaf \o cNestedBad))
  /\ HasMalformedStart(eml)
  /\ ret.t = "Error"

-----------------------------------------------------------------------------
(* Properties of unquoteString *)

\* somewhere in s stands =?charset?B?payload?= or =?charset?Q?payload?=, the
\* syntax of an encoded-word: a charset without "?", the letter B or Q in
\* either case, and a payload, none of them empty
HasEncodedWord(s) ==
  \E p \in 1..Len(s) :
    /\ p + 1 <= Len(s) /\ s[p] = "=" /\ s[p + 1] = "?"
    /\ \E q \in (p + 3)..Len(s) :
         /\ q + 2 <= Len(s) /\ s[q] = "?" /\ s[q + 1] \in {"B", "b", "Q", "q"} /\ s[q + 2] = "?"
         /\ \A k \in (p + 2)..(q - 1) : s[k] # "?"
         /\ \E e \in (q + 4)..Len(s) : e + 1 <= Len(s) /\ s[e] = "?" /\ s[e + 1] = "="

\* C9 as the spec states it: unquoteString of a string without an
\* encoded-word returns the string unchanged, folded values included
PlainValueUnchanged ==
  pc = "unquoted" /\ ~HasEncodedWord(raw.s) => ret = raw

\* C9: unquoteString of a string without an encoded-word returns the lines of
\* the string joined, that is the string without its line breaks (every LF
\* and the CR right before it); a string without a line break comes back
\* unchanged
PlainValueJoined ==
  pc = "unquoted" /\ ~HasEncodedWord(raw.s)
    => /\ ~escaped
       /\ ret = Str(Join(Split(raw.s), <<>>))
       /\ Len(Split(raw.s)) = 1 => ret = raw

\* a folded value, two lines, has been decoded into one line
FoldedValueUnquoted ==
  /\ pc = "unquoted"
  /\ raw = Str(<<"x", CR, LF, " ", "x">>)
  /\ ret = Str(<<"x", " ", "x">>)

-----------------------------------------------------------------------------
(* Properties of the two resolvers *)

\* C10: completeBoundary makes of a boundary's lines the part parseRecursive
\* makes of them: the same headers, the same body, the same nested boundaries
ResolversAgree ==
  pc = "resolved"
    => /\ topDown.t = "object"
       /\ ret # Null
       /\ ret["part"] = topDown.o

-----------------------------------------------------------------------------
(* Multipart messages with a closing marker, an epilogue and a nested part *)

MaxInner == 2

sBC == <<"B","C">>
sCTAlternative == SubSeq(lnCTC, 1, Len(lnCTC) - 1)

\* the lines that close a series delimited by b: none, the marker after a
\* blank line, or the marker right after the last line of the part
CloseLines(b, how) ==
  CASE how = "none" -> <<>>
    [] how = "blank" -> << <<>>, sDashDash \o b \o sDashDash >>
    [] how = "tight" -> << sDashDash \o b \o sDashDash >>

LeafLines == <<lnX, <<>>, lnBody>>

\* the lines of a nested multipart part: its Content-Type with the boundary
\* inner, n text parts, and its closing
NestedLines(inner, n, close) ==
  <<sCTAlternative \o inner, <<>> >>
    \o Flatten([k \in 1..n |-> <<sDashDash \o inner, lnCTtext, <<>>, lnBody>>])
    \o CloseLines(inner, close)

\* the lines of the parts of a message, in order: the first part, nested or
\* a leaf, and a second leaf if there is one
PartLines(m) ==
  << IF m.nested THEN NestedLines(m.inner, m.n, m.innerClose) ELSE LeafLines >>
    \o (IF m.second THEN <<LeafLines>> ELSE <<>>)

\* the lines of a message: headers, the parts each after a marker of B, the
\* closing of B, and the epilogue
MessageLines(m) ==
  <<lnCTB, <<>> >>
    \o Flatten([k \in DOMAIN PartLines(m) |-> <<lnStartB>> \o PartLines(m)[k]])
    \o CloseLines(<<"B">>, m.close)
    \o m.tail

Messages ==
  [nested : {TRUE}, inner : {<<"C">>, sBC}, n : 0..MaxInner,
   innerClose : {"none", "blank", "tight"}, second : BOOLEAN,
   close : {"none", "blank", "tight"}, tail : {<<>>, <<lnBody>>}]
  \cup
  [nested : {FALSE}, inner : {<<"C">>}, n : {0}, innerClose : {"none"}, second : BOOLEAN,
   close : {"none", "blank", "tight"}, tail : {<<>>, <<lnBody>>}]

InitMarkers ==
  /\ pc = "ready"
  /\ raw \in Messages
  /\ eml = Str(TextOf(MessageLines(raw)))
  /\ options = Undefined /\ callback = Undefined
  /\ ret = Undefined /\ cbLog = <<>> /\ escaped = FALSE /\ leaves = <<>>
  /\ tree = Undefined /\ topDown = Undefined

NextMarkers == Parse

SpecMarkers == InitMarkers /\ [][NextMarkers]_vars

\* the part a resolved Boundary gets of the lines ls
PartOf(ls) == parseRecursive(ls, 0, EmptyObject, Obj([headersOnly |-> Bool(FALSE)])).node

\* the lines the last part of the series of B has before its closing marker:
\* its own lines and, where there is one, the blank line before the marker
LastPartLines(m) ==
  PartLines(m)[Len(PartLines(m))] \o (IF m.close = "blank" THEN << <<>> >> ELSE <<>>)

\* no marker line of the nested part begins like a marker of B
OwnMarkers(m) == ~m.nested \/ ~StartsWith(m.inner, <<"B">>)

\* C11: a message whose series of B ends with the closing marker, after a
\* blank line or not, is parsed to one Boundary for each part, the last one
\* resolved from exactly the lines before the marker, and no part has a line
\* of the epilogue
ClosingMarkerEndsSeries ==
  pc = "parsed" /\ raw.close # "none" /\ OwnMarkers(raw)
    => /\ ret.t = "object"
       /\ "body" \in DOMAIN ret.o
       /\ ret.o["body"].t = "array"
       /\ Len(ret.o["body"].a) = Len(PartLines(raw))
       /\ \A k \in 1..Len(PartLines(raw)) :
            /\ ret.o["body"].a[k]["boundary"] = <<"B">>
            /\ "part" \in DOMAIN ret.o["body"].a[k]
            /\ ret.o["body"].a[k]["part"]
                 = PartOf(IF k = Len(PartLines(raw)) THEN LastPartLines(raw) ELSE PartLines(raw)[k])

\* the delimiters of the Boundaries of a part's body, in order
Delimiters(part) ==
  IF "body" \in DOMAIN part /\ part["body"].t = "array"
  THEN [k \in DOMAIN part["body"].a |-> part["body"].a[k]["boundary"]]
  ELSE <<>>

\* the depth of a tree: 0 for a part without a list body, and one more than
\* its deepest resolved Boundary for a part with one
RECURSIVE Depth(_)
Depth(part) ==
  IF "body" \in DOMAIN part /\ part["body"].t = "array"
  THEN 1 + Greatest({IF "part" \in DOMAIN part["body"].a[k]
                     THEN Depth(part["body"].a[k]["part"]) ELSE 0 :
                       k \in DOMAIN part["body"].a})
  ELSE 0

\* the nesting depth of a message: the multipart levels one inside the other
NestingDepth(m) == IF m.nested THEN 2 ELSE 1

\* every series of the message has its closing marker
WellFormed(m) == m.close # "none" /\ (m.nested => m.innerClose # "none")

\* the tree has the levels of the message: the depth is the nesting depth,
\* the root has one Boundary of B for each part, and a nested first part has
\* one Boundary of its own boundary string for each of its parts
LevelsAsDeclared ==
  /\ ret.t = "object"
  /\ Depth(ret.o) = NestingDepth(raw)
  /\ Delimiters(ret.o) = [k \in DOMAIN PartLines(raw) |-> <<"B">>]
  /\ raw.nested => /\ "part" \in DOMAIN ret.o["body"].a[1]
                   /\ Delimiters(ret.o["body"].a[1]["part"]) = [k \in 1..raw.n |-> raw.inner]

-----------------------------------------------------------------------------
(* Header sections: repeated names, continuation lines, blank lines *)

MaxHeaderLines == 4

lnXe == <<"X",":">>

HeaderAlphabet == {lnX, lnXz, lnXe, lnFold, <<>>, lnBody, sContentType, lnCTtext}

HeaderTexts == UNION {[1..n -> HeaderAlphabet] : n \in 1..MaxHeaderLines}

InitHeaders ==
  /\ pc = "ready"
  /\ raw \in HeaderTexts
  /\ eml = Str(TextOf(raw))
  /\ options = Undefined /\ callback = Undefined
  /\ ret = Undefined /\ cbLog = <<>> /\ escaped = FALSE /\ leaves = <<>>
  /\ tree = Undefined /\ topDown = Undefined

NextHeaders == Parse

SpecHeaders == InitHeaders /\ [][NextHeaders]_vars

\* every line is a Name: value line or a continuation line, and the first
\* one is a Name: value line
IsHeaderSection(ls) ==
  /\ Len(ls) >= 1 /\ HeaderMatch(ls[1]).ok /\ ~ContinuationMatch(ls[1]).ok
  /\ \A k \in 1..Len(ls) : HeaderMatch(ls[k]).ok \/ ContinuationMatch(ls[k]).ok

\* the values of each name in document order, a continuation line added to
\* the last value of the name seen last
RECURSIVE Occurrences(_)
Occurrences(ls) ==
  IF Len(ls) = 0 THEN [values |-> EmptyObject, last |-> <<>>]
  ELSE The({
    IF ContinuationMatch(line).ok
    THEN [before EXCEPT !.values =
            Put(before.values, before.last,
                [before.values[before.last] EXCEPT ![Len(before.values[before.last])] =
                   before.values[before.last][Len(before.values[before.last])]
                     \o sCRLF \o ContinuationMatch(line).g1])]
    ELSE [values |-> Put(before.values, HeaderMatch(line).g1,
                         Append(IF HeaderMatch(line).g1 \in DOMAIN before.values
                                THEN before.values[HeaderMatch(line).g1] ELSE <<>>,
                                HeaderMatch(line).g2)),
          last |-> HeaderMatch(line).g1] :
      before \in {Occurrences(SubSeq(ls, 1, Len(ls) - 1))}, line \in {ls[Len(ls)]}})

\* C12: a parsed header section stores for a name that occurs once its
\* value as a string and for a name that occurs k >= 2 times the list of
\* its k values in document order, continuation lines added to the last
\* value of the header seen last
RepeatedHeadersAreLists ==
  pc = "parsed" /\ IsHeaderSection(raw)
    => /\ ret.t = "object"
       /\ "headers" \in DOMAIN ret.o
       /\ DOMAIN ret.o["headers"] = DOMAIN Occurrences(raw).values
       /\ \A name \in DOMAIN Occurrences(raw).values :
            ret.o["headers"][name]
              = IF Len(Occurrences(raw).values[name]) = 1
                THEN Str(Occurrences(raw).values[name][1])
                ELSE Arr(Occurrences(raw).values[name])

\* the places of the blank lines of ls, in order
BlankLines(ls) == {k \in 1..Len(ls) : ls[k] = <<>>}

\* ls has a second blank line and a line after it
LineAfterSecondBlank(ls) ==
  \E i, j \in BlankLines(ls) : i < j /\ j < Len(ls)

\* C14: a parse without headersOnly of a text that has a line after its
\* second blank line returns a tree with a body, a string or a list: the
\* scan has left header mode at the second blank line at the latest
DefersAtMostOnce ==
  pc = "parsed" /\ LineAfterSecondBlank(raw)
    => /\ ret.t = "object"
       /\ "body" \in DOMAIN ret.o
       /\ ret.o["body"].t \in {"string", "array"}

====
